---------------------------- MODULE Spec2Model ----------------------------
(***************************************************************************)
(* The example Network of oscoin/graph-api (examples/main.rs): two         *)
(* BTreeMaps, `nodes` and `edges`, behind the Graph, GraphWriter and       *)
(* GraphDataWriter traits of src/lib.rs.                                   *)
(*                                                                         *)
(* A client is single threaded and every read hands out borrows of the     *)
(* graph, so a run is a sequence of calls: a call runs its whole method    *)
(* body in one step and leaves its name, arguments, return value and the   *)
(* graph it started from in `op`, `arg`, `ret`, `nodes0`, `edges0`; the    *)
(* client then drops what it was handed (Release) before the next call.    *)
(* A panic ends the process: no step follows it.                           *)
(***************************************************************************)
EXTENDS Naturals, Sequences, FiniteSets

VARIABLES nodes,    \* Network.nodes : BTreeMap<Id, Node>
          edges,    \* Network.edges : BTreeMap<Id, Edge>
          op,       \* the method last called, "idle" between calls
          arg,      \* its arguments
          ret,      \* what it returned
          panicked, \* TRUE once a call has panicked
          nodes0,   \* Network.nodes when the call started
          edges0    \* Network.edges when the call started

vars == <<nodes, edges, op, arg, ret, panicked, nodes0, edges0>>

-----------------------------------------------------------------------------
(* Bounds of the model. *)

\* node ids are 1..MaxNodeId
MaxNodeId == 2
\* edge ids are 1..MaxEdgeId under Spec
MaxEdgeId == 2
\* edge ids are 1..MaxDataEdgeId under SpecData, where edge payloads vary too
MaxDataEdgeId == 1

NodeIds == 1..MaxNodeId
EdgeIds == 1..MaxEdgeId
DataEdgeIds == 1..MaxDataEdgeId

-----------------------------------------------------------------------------
(* Payloads.  NodeData = Vec<(&'static str, Bytes)>, EdgeData = Bytes. *)

\* vec![("A", Vec::new())]
DataA == << <<"A", <<>>>> >>
\* vec![("AA", Vec::new())]
DataAA == << <<"AA", <<>>>> >>
NodeDataVals == {DataA, DataAA}

\* vec![]
Bytes0 == <<>>
\* vec![EdgeType::Dependency as u8]
Bytes1 == <<1>>
EdgeDataVals == {Bytes0, Bytes1}

\* Option<T>: None is the empty sequence, Some(x) the one-element sequence.
None == <<>>
Some(x) == <<x>>
\* the return value of a method returning ()
Unit == "unit"

-----------------------------------------------------------------------------
(* The objects stored. *)

\* the Node that add_node builds
Node(id, data) == [id |-> id, data |-> data, node_type |-> "Project"]

\* the Edge that add_edge builds
Edge(id, from, to, data) ==
  [id |-> id, from |-> from, to |-> to, data |-> data, weight |-> 0,
   edge_type |-> "ContributionFromUser"]

\* the EdgeRef that edges_directed builds from an edge
EdgeRef(e) == [from |-> e.from, to |-> e.to, id |-> e.id, edge_type |-> e.edge_type]

-----------------------------------------------------------------------------
(* std::collections::BTreeMap, as a function from a finite set of keys. *)

BTreeMap_new == [k \in {} |-> k]

BTreeMap_insert(m, k, v) ==
  [x \in (DOMAIN m) \cup {k} |-> IF x = k THEN v ELSE m[x]]

BTreeMap_remove(m, k) == [x \in (DOMAIN m) \ {k} |-> m[x]]

BTreeMap_get(m, k) == IF k \in DOMAIN m THEN Some(m[k]) ELSE None

RECURSIVE KeysAscending(_)
\* the keys of a map in the order a BTreeMap iterates them
KeysAscending(S) ==
  IF S = {} THEN <<>>
  ELSE LET k == CHOOSE x \in S : \A y \in S : x <= y
       IN  <<k>> \o KeysAscending(S \ {k})

\* BTreeMap::values: the values in ascending key order
BTreeMap_values(m) ==
  LET ks == KeysAscending(DOMAIN m) IN [i \in 1..Len(ks) |-> m[ks[i]]]

-----------------------------------------------------------------------------
(* impl Graph for Network: the reads, as functions of the current graph. *)

get_node(id) == BTreeMap_get(nodes, id)

get_edge(id) == BTreeMap_get(edges, id)

\* Graph::nodes
Graph_nodes == BTreeMap_values(nodes)

RECURSIVE neighbors_loop(_, _, _)
\* the for loop of neighbors over the edges es still to visit, ns collected so
\* far; self.nodes.get(..).unwrap() panics on an id that is not in the map
neighbors_loop(es, node, ns) ==
  IF es = <<>> THEN [panic |-> FALSE, ns |-> ns]
  ELSE LET e == Head(es) IN
       IF e.from = node
       THEN IF e.to \in DOMAIN nodes
            THEN neighbors_loop(Tail(es), node, Append(ns, nodes[e.to]))
            ELSE [panic |-> TRUE, ns |-> <<>>]
       ELSE IF e.to = node
       THEN IF e.from \in DOMAIN nodes
            THEN neighbors_loop(Tail(es), node, Append(ns, nodes[e.from]))
            ELSE [panic |-> TRUE, ns |-> <<>>]
       ELSE neighbors_loop(Tail(es), node, ns)

neighbors(node) == neighbors_loop(BTreeMap_values(edges), node, <<>>)

\* an edges that tests the source only
Graph_edges_source_only(node) ==
  SelectSeq(BTreeMap_values(edges), LAMBDA e : e.from = node)

\* Graph::edges
Graph_edges(node) ==
  SelectSeq(BTreeMap_values(edges), LAMBDA e : e.from = node \/ e.to = node)

RECURSIVE edges_directed_loop_same_end(_, _, _, _)
\* an edges_directed whose Incoming branch tests e.from, as the Outgoing one does
edges_directed_loop_same_end(es, node, dir, refs) ==
  IF es = <<>> THEN refs
  ELSE LET e == Head(es) IN
       IF dir = "Outgoing" /\ e.from = node
       THEN edges_directed_loop_same_end(Tail(es), node, dir, Append(refs, EdgeRef(e)))
       ELSE IF dir = "Incoming" /\ e.from = node
       THEN edges_directed_loop_same_end(Tail(es), node, dir, Append(refs, EdgeRef(e)))
       ELSE edges_directed_loop_same_end(Tail(es), node, dir, refs)

RECURSIVE edges_directed_loop(_, _, _, _)
\* the for loop of edges_directed
edges_directed_loop(es, node, dir, refs) ==
  IF es = <<>> THEN refs
  ELSE LET e == Head(es) IN
       IF dir = "Outgoing" /\ e.from = node
       THEN edges_directed_loop(Tail(es), node, dir, Append(refs, EdgeRef(e)))
       ELSE IF dir = "Incoming" /\ e.to = node
       THEN edges_directed_loop(Tail(es), node, dir, Append(refs, EdgeRef(e)))
       ELSE edges_directed_loop(Tail(es), node, dir, refs)

edges_directed(node, dir) ==
  edges_directed_loop(BTreeMap_values(edges), node, dir, <<>>)

Direction == {"Outgoing", "Incoming"}

-----------------------------------------------------------------------------
(* impl GraphWriter for Network: each is the map the method leaves. *)

\* an add_node that keeps the node already stored under id (entry().or_insert)
add_node_keep_old(id, data) ==
  IF id \in DOMAIN nodes THEN nodes ELSE BTreeMap_insert(nodes, id, Node(id, data))

add_node(id, data) == BTreeMap_insert(nodes, id, Node(id, data))

remove_node(id) == BTreeMap_remove(nodes, id)

add_edge(id, from, to, data) == BTreeMap_insert(edges, id, Edge(id, from, to, data))

\* a remove_edge that unlinks the two nodes: every edge between the ends of edge id
remove_edge_between(id) ==
  IF id \notin DOMAIN edges THEN edges
  ELSE [e \in {x \in DOMAIN edges : ~(edges[x].from = edges[id].from
                                        /\ edges[x].to = edges[id].to)} |-> edges[e]]

remove_edge(id) == BTreeMap_remove(edges, id)

\* the &mut Node items of nodes_mut, each known by the key of its node
nodes_mut == KeysAscending(DOMAIN nodes)

-----------------------------------------------------------------------------
(* impl GraphDataWriter for Network.  Both take &mut self: `map` is the map *)
(* the call leaves, `ref` the Option<&mut Data> it returns, None or Some of *)
(* a reference, known by the key of the object whose data it borrows.       *)

\* a node_data_mut that creates the node it is asked for (entry().or_insert)
node_data_mut_or_insert(id) ==
  [map |-> IF id \in DOMAIN nodes THEN nodes
           ELSE BTreeMap_insert(nodes, id, Node(id, <<>>)),
   ref |-> Some(id)]

\* a node_data_mut that hands out the data of the first node, whatever the id
node_data_mut_first(id) ==
  [map |-> nodes,
   ref |-> IF id \in DOMAIN nodes THEN Some(KeysAscending(DOMAIN nodes)[1]) ELSE None]

node_data_mut(id) ==
  [map |-> nodes, ref |-> IF id \in DOMAIN nodes THEN Some(id) ELSE None]

edge_data_mut(id) ==
  [map |-> edges, ref |-> IF id \in DOMAIN edges THEN Some(id) ELSE None]

\* `*r = d` through a reference r into the data of an object of map m
assign_data(m, r, d) ==
  [k \in DOMAIN m |-> IF k = r THEN [m[k] EXCEPT !.data = d] ELSE m[k]]

-----------------------------------------------------------------------------
(* The calls. *)

Init ==
  /\ nodes = BTreeMap_new
  /\ edges = BTreeMap_new
  /\ op = "idle"
  /\ arg = <<>>
  /\ ret = <<>>
  /\ panicked = FALSE
  /\ nodes0 = BTreeMap_new
  /\ edges0 = BTreeMap_new

\* a call starts when no call is pending and the process is alive
CanCall == op = "idle" /\ ~panicked

\* what every call records of the graph it starts from
Snapshot == nodes0' = nodes /\ edges0' = edges

\* a read that cannot panic: the graph stays, the value is returned
Read(name, a, value) ==
  /\ CanCall
  /\ op' = name /\ arg' = a /\ ret' = value
  /\ Snapshot
  /\ UNCHANGED <<nodes, edges, panicked>>

GetNode(id) == Read("get_node", [id |-> id], get_node(id))

GetEdge(id) == Read("get_edge", [id |-> id], get_edge(id))

Nodes == Read("nodes", <<>>, Graph_nodes)

Neighbors(node) ==
  /\ CanCall
  /\ op' = "neighbors" /\ arg' = [node |-> node]
  /\ LET r == neighbors(node) IN ret' = r.ns /\ panicked' = r.panic
  /\ Snapshot
  /\ UNCHANGED <<nodes, edges>>

Edges(node) == Read("edges", [node |-> node], Graph_edges(node))

EdgesDirected(node, dir) ==
  Read("edges_directed", [node |-> node, dir |-> dir], edges_directed(node, dir))

AddNode(id, data) ==
  /\ CanCall
  /\ op' = "add_node" /\ arg' = [id |-> id, data |-> data] /\ ret' = Unit
  /\ nodes' = add_node(id, data)
  /\ Snapshot
  /\ UNCHANGED <<edges, panicked>>

RemoveNode(id) ==
  /\ CanCall
  /\ op' = "remove_node" /\ arg' = [id |-> id] /\ ret' = Unit
  /\ nodes' = remove_node(id)
  /\ Snapshot
  /\ UNCHANGED <<edges, panicked>>

AddEdge(id, from, to, data) ==
  /\ CanCall
  /\ op' = "add_edge"
  /\ arg' = [id |-> id, from |-> from, to |-> to, data |-> data]
  /\ ret' = Unit
  /\ edges' = add_edge(id, from, to, data)
  /\ Snapshot
  /\ UNCHANGED <<nodes, panicked>>

RemoveEdge(id) ==
  /\ CanCall
  /\ op' = "remove_edge" /\ arg' = [id |-> id] /\ ret' = Unit
  /\ edges' = remove_edge(id)
  /\ Snapshot
  /\ UNCHANGED <<nodes, panicked>>

NodesMut == Read("nodes_mut", <<>>, nodes_mut)

\* node_data_mut(&id), and the caller's `*r = d` when it is handed Some(r)
NodeDataMut(id, d) ==
  /\ CanCall
  /\ op' = "node_data_mut" /\ arg' = [id |-> id, data |-> d]
  /\ LET r == node_data_mut(id) IN
       /\ ret' = r.ref
       /\ nodes' = IF r.ref = None THEN r.map ELSE assign_data(r.map, r.ref[1], d)
  /\ Snapshot
  /\ UNCHANGED <<edges, panicked>>

\* edge_data_mut(&id), and the caller's `*r = d` when it is handed Some(r)
EdgeDataMut(id, d) ==
  /\ CanCall
  /\ op' = "edge_data_mut" /\ arg' = [id |-> id, data |-> d]
  /\ LET r == edge_data_mut(id) IN
       /\ ret' = r.ref
       /\ edges' = IF r.ref = None THEN r.map ELSE assign_data(r.map, r.ref[1], d)
  /\ Snapshot
  /\ UNCHANGED <<nodes, panicked>>

\* the caller drops what the call handed out; the next call may start
Release ==
  /\ op # "idle" /\ ~panicked
  /\ op' = "idle" /\ arg' = <<>> /\ ret' = <<>>
  /\ Snapshot
  /\ UNCHANGED <<nodes, edges, panicked>>

\* any call with edge ids from EIds, node payloads from ND, edge payloads from ED
Call(EIds, ND, ED) ==
  \/ \E id \in NodeIds : GetNode(id)
  \/ \E id \in EIds : GetEdge(id)
  \/ Nodes
  \/ \E n \in NodeIds : Neighbors(n)
  \/ \E n \in NodeIds : Edges(n)
  \/ \E n \in NodeIds, dir \in Direction : EdgesDirected(n, dir)
  \/ \E id \in NodeIds, d \in ND : AddNode(id, d)
  \/ \E id \in NodeIds : RemoveNode(id)
  \/ \E id \in EIds, from \in NodeIds, to \in NodeIds, d \in ED : AddEdge(id, from, to, d)
  \/ \E id \in EIds : RemoveEdge(id)
  \/ NodesMut
  \/ \E id \in NodeIds, d \in ND : NodeDataMut(id, d)
  \/ \E id \in EIds, d \in ED : EdgeDataMut(id, d)

\* node payloads vary, every edge carries the empty payload
Next == Call(EdgeIds, NodeDataVals, {Bytes0}) \/ Release

Spec == Init /\ [][Next]_vars

\* node and edge payloads vary, over fewer edge ids
NextData == Call(DataEdgeIds, NodeDataVals, EdgeDataVals) \/ Release

SpecData == Init /\ [][NextData]_vars

-----------------------------------------------------------------------------
(* What the claims need to name. *)

ReadOps == {"get_node", "get_edge", "nodes", "neighbors", "edges", "edges_directed"}

\* whether s is a (possibly empty) sequence
IsSequence(s) == DOMAIN s = 1..Len(s)

\* the keys of the edges of map es that have n as an end
Touching(es, n) == {e \in DOMAIN es : es[e].from = n \/ es[e].to = n}

\* whether some item of the sequence of nodes ns is the node with id n
ContainsNode(ns, n) == \E i \in 1..Len(ns) : ns[i].id = n

-----------------------------------------------------------------------------
(* C1..C4: dangling edges. *)

\* C1: in every reachable state every stored edge has both its source and its
\* target id present in the node map.
C1_EdgeEndpointsPresent ==
  \A e \in DOMAIN edges :
    edges[e].from \in DOMAIN nodes /\ edges[e].to \in DOMAIN nodes

\* C2: a read (get_node, get_edge, nodes, neighbors, edges, edges_directed),
\* called with any id in any reachable state, returns None or a sequence and
\* never panics.
C2_ReadsNeverFault ==
  op \in ReadOps => ~panicked /\ IsSequence(ret)

\* whether every edge of map es has both ends among the keys of map ns
NoDanglingEdge(ns, es) ==
  \A e \in DOMAIN es : es[e].from \in DOMAIN ns /\ es[e].to \in DOMAIN ns

\* C3: right after remove_node(n) no stored edge has n as an end, and edges(n)
\* is empty.  Stated for the removal of a stored node from a graph in which
\* every edge had both its ends, so that what fails is remove_node itself.
C3_RemoveNodeCascades ==
  (op = "remove_node" /\ arg.id \in DOMAIN nodes0 /\ NoDanglingEdge(nodes0, edges0)) =>
    /\ \A e \in DOMAIN edges : edges[e].from # arg.id /\ edges[e].to # arg.id
    /\ Graph_edges(arg.id) = <<>>

\* C4: add_edge(id, from, to, data) with from or to not a node of the graph
\* returns something other than the () of a successful call, does not panic,
\* and leaves the graph as it was.
C4_AddEdgeMissingEndpointIsError ==
  (op = "add_edge" /\ (arg.from \notin DOMAIN nodes0 \/ arg.to \notin DOMAIN nodes0)) =>
    /\ ret # Unit
    /\ ~panicked
    /\ nodes = nodes0 /\ edges = edges0

-----------------------------------------------------------------------------
(* C5: add_node overwrites by id. *)

\* C5: right after add_node(id, d), whatever was stored under id before,
\* get_node(id) is a node with data d, nodes() holds exactly one node with
\* that id, and every other node is as it was.
C5_AddNodeOverwrites ==
  op = "add_node" =>
    /\ get_node(arg.id) # None
    /\ get_node(arg.id)[1].id = arg.id
    /\ get_node(arg.id)[1].data = arg.data
    /\ Cardinality({i \in 1..Len(Graph_nodes) : Graph_nodes[i].id = arg.id}) = 1
    /\ (DOMAIN nodes) \ {arg.id} = (DOMAIN nodes0) \ {arg.id}
    /\ \A k \in (DOMAIN nodes0) \ {arg.id} : nodes[k] = nodes0[k]
    /\ edges = edges0

\* the second add_node(id, d2) of C5: id held other data, and another node exists
C5_Witness ==
  /\ op = "add_node"
  /\ arg.id \in DOMAIN nodes0
  /\ nodes0[arg.id].data # arg.data
  /\ (DOMAIN nodes0) \ {arg.id} # {}

-----------------------------------------------------------------------------
(* C6..C8: neighbors, edges, edges_directed. *)

\* C6: for every stored edge with source a and target b, neighbors(a) contains
\* node b and neighbors(b) contains node a.
C6_NeighborsSymmetric ==
  op = "neighbors" =>
    \A e \in DOMAIN edges :
      /\ edges[e].from = arg.node => ~panicked /\ ContainsNode(ret, edges[e].to)
      /\ edges[e].to = arg.node => ~panicked /\ ContainsNode(ret, edges[e].from)

\* C7: edges(n) returns exactly the stored edges that have n as source or
\* target, each once.
C7_EdgesExactlyTouching ==
  op = "edges" =>
    /\ \A i \in 1..Len(ret) :
         /\ ret[i].from = arg.node \/ ret[i].to = arg.node
         /\ ret[i].id \in DOMAIN edges /\ edges[ret[i].id] = ret[i]
    /\ \A e \in Touching(edges, arg.node) :
         Cardinality({i \in 1..Len(ret) : ret[i] = edges[e]}) = 1
    /\ Len(ret) = Cardinality(Touching(edges, arg.node))

\* edges(n) with n the source of one stored edge and only the target of another
C7_Witness ==
  /\ op = "edges"
  /\ Len(ret) = 2
  /\ \E i \in 1..Len(ret) : ret[i].from = arg.node
  /\ \E i \in 1..Len(ret) : ret[i].from # arg.node /\ ret[i].to = arg.node

\* the keys of the stored edges that edges_directed(n, dir) is to report
Directed(n, dir) ==
  {e \in DOMAIN edges : IF dir = "Outgoing" THEN edges[e].from = n ELSE edges[e].to = n}

\* C8: edges_directed(n, Outgoing) returns one EdgeRef for exactly each stored
\* edge whose source is n, edges_directed(n, Incoming) one for exactly each
\* stored edge whose target is n; the from, to and id of each EdgeRef are those
\* of the stored edge, so get_edge(eref.id) returns that edge.
C8_EdgesDirectedExact ==
  op = "edges_directed" =>
    /\ Len(ret) = Cardinality(Directed(arg.node, arg.dir))
    /\ \A e \in Directed(arg.node, arg.dir) :
         Cardinality({i \in 1..Len(ret) : ret[i].id = e}) = 1
    /\ \A i \in 1..Len(ret) :
         /\ ret[i].id \in Directed(arg.node, arg.dir)
         /\ get_edge(ret[i].id) # None
         /\ get_edge(ret[i].id)[1].id = ret[i].id
         /\ get_edge(ret[i].id)[1].from = ret[i].from
         /\ get_edge(ret[i].id)[1].to = ret[i].to

\* edges_directed(n, Incoming) that reports an edge while n is also the source
\* of an edge it must not report
C8_Witness ==
  /\ op = "edges_directed"
  /\ arg.dir = "Incoming"
  /\ Len(ret) = 1
  /\ \E e \in DOMAIN edges : edges[e].from = arg.node /\ edges[e].to # arg.node

-----------------------------------------------------------------------------
(* C9, C10: writes through node_data_mut and edge_data_mut. *)

\* C9: a write through node_data_mut(id) or edge_data_mut(id) leaves the set
\* of node ids, the set of edge ids, every edge's source and target and every
\* node's NodeType as they were; with an unknown id the call returns None and
\* changes nothing.
C9_DataWriteKeepsTopology ==
  op \in {"node_data_mut", "edge_data_mut"} =>
    /\ DOMAIN nodes = DOMAIN nodes0
    /\ DOMAIN edges = DOMAIN edges0
    /\ \A n \in DOMAIN nodes0 :
         nodes[n].id = nodes0[n].id /\ nodes[n].node_type = nodes0[n].node_type
    /\ \A e \in DOMAIN edges0 :
         /\ edges[e].id = edges0[e].id
         /\ edges[e].from = edges0[e].from
         /\ edges[e].to = edges0[e].to
    /\ (op = "node_data_mut" /\ arg.id \notin DOMAIN nodes0) =>
         ret = None /\ nodes = nodes0 /\ edges = edges0
    /\ (op = "edge_data_mut" /\ arg.id \notin DOMAIN edges0) =>
         ret = None /\ nodes = nodes0 /\ edges = edges0

\* a write through edge_data_mut that changed a payload, in a graph with nodes
C9_Witness ==
  /\ op = "edge_data_mut"
  /\ ret # None
  /\ edges # edges0
  /\ DOMAIN nodes # {}

\* C10: after d is assigned through node_data_mut(id) for a present node id,
\* get_node(id) is a node with data d, and the data of every other node is as
\* it was.
C10_DataWriteVisible ==
  (op = "node_data_mut" /\ arg.id \in DOMAIN nodes0) =>
    /\ ret # None
    /\ get_node(arg.id) # None
    /\ get_node(arg.id)[1].data = arg.data
    /\ \A k \in (DOMAIN nodes0) \ {arg.id} :
         k \in DOMAIN nodes /\ nodes[k].data = nodes0[k].data

\* a write through node_data_mut that changed the payload of one of two nodes
C10_Witness ==
  /\ op = "node_data_mut"
  /\ arg.id \in DOMAIN nodes0
  /\ nodes0[arg.id].data # arg.data
  /\ (DOMAIN nodes0) \ {arg.id} # {}

-----------------------------------------------------------------------------
(* C11: what remove_edge and remove_node leave alone. *)

\* C11: remove_edge(id) removes the edge with that id and nothing else:
\* afterwards get_edge(id) is None and no edges(n) contains it, every other
\* edge and every node is as it was; remove_edge and remove_node with an id
\* that is not stored leave the whole graph as it was.
C11_RemoveEdgeExact ==
  /\ op = "remove_edge" =>
       /\ get_edge(arg.id) = None
       /\ \A n \in NodeIds :
            \A i \in 1..Len(Graph_edges(n)) : Graph_edges(n)[i].id # arg.id
       /\ DOMAIN edges = (DOMAIN edges0) \ {arg.id}
       /\ \A e \in (DOMAIN edges0) \ {arg.id} : edges[e] = edges0[e]
       /\ nodes = nodes0
       /\ arg.id \notin DOMAIN edges0 => edges = edges0
  /\ (op = "remove_node" /\ arg.id \notin DOMAIN nodes0) =>
       nodes = nodes0 /\ edges = edges0

\* remove_edge of a stored edge while another edge links the same two stored
\* nodes
C11_Witness ==
  /\ op = "remove_edge"
  /\ arg.id \in DOMAIN edges0
  /\ \E e \in (DOMAIN edges0) \ {arg.id} :
       /\ edges0[e].from = edges0[arg.id].from
       /\ edges0[e].to = edges0[arg.id].to
       /\ edges0[e].from \in DOMAIN nodes0
  /\ edges # BTreeMap_new

-----------------------------------------------------------------------------
(* src/types.rs: NodeType, EdgeType, EdgeTypeTag, HyperParameters.  Their   *)
(* methods read and write only the value they are called on, so a call is  *)
(* an action whose arguments, `self` among them, are drawn from the values  *)
(* below; the graph is not touched.                                         *)

\* the largest value of the counters: u32::MAX, scaled down to a width the
\* checker can enumerate; arithmetic on counters is modulo U32Max + 1
U32Max == 3
\* the weights of HyperParameters.edge_weights are 1..MaxWeight
MaxWeight == 2

U32 == 0..U32Max
Weights == 1..MaxWeight

\* enum EdgeTypeTag
EdgeTypeTag ==
  {"ProjectToUserContribution", "UserToProjectContribution",
   "ProjectToUserMembership", "UserToProjectMembership", "Dependency"}

\* enum EdgeType: <<variant, payload>>, and <<"Dependency">> with no payload
EdgeType ==
  ({"ProjectToUserContribution", "UserToProjectContribution",
    "ProjectToUserMembership", "UserToProjectMembership"} \X U32)
  \cup {<<"Dependency">>}

\* enum NodeType: the variant and its one u32 field
NodeType == [variant : {"User", "Project"}, contributions : U32]

\* struct HyperParameters, by the one field get_param reads: edge_weights, a
\* HashMap from some of the tags to weights
HyperParameters ==
  [edge_weights : UNION {[S -> Weights] : S \in SUBSET EdgeTypeTag}]

\* a to_tag whose UserToProjectMembership arm returns the tag of the arm above
to_tag_membership_arm_copied(et) ==
  CASE et[1] = "ProjectToUserContribution" -> "ProjectToUserContribution"
    [] et[1] = "UserToProjectContribution" -> "UserToProjectContribution"
    [] et[1] = "ProjectToUserMembership" -> "ProjectToUserMembership"
    [] et[1] = "UserToProjectMembership" -> "ProjectToUserMembership"
    [] et[1] = "Dependency" -> "Dependency"

\* EdgeType::to_tag
to_tag(et) ==
  CASE et[1] = "ProjectToUserContribution" -> "ProjectToUserContribution"
    [] et[1] = "UserToProjectContribution" -> "UserToProjectContribution"
    [] et[1] = "ProjectToUserMembership" -> "ProjectToUserMembership"
    [] et[1] = "UserToProjectMembership" -> "UserToProjectMembership"
    [] et[1] = "Dependency" -> "Dependency"

\* EdgeType::total_contributions
EdgeType_total_contributions(et) == IF et[1] = "Dependency" THEN 0 ELSE et[2]

\* HyperParameters::get_param: the weight under the tag, a panic when
\* edge_weights has no entry for it
get_param(hp, edge_type_tag) ==
  IF edge_type_tag \in DOMAIN hp.edge_weights
  THEN [panic |-> FALSE, value |-> Some(hp.edge_weights[edge_type_tag])]
  ELSE [panic |-> TRUE, value |-> None]

\* NodeType::add_contributions: `+= c` on a u32.  A sum above u32::MAX panics
\* in a build with overflow checks and wraps in a build without them.
add_contributions(nt, c, overflow_checks) ==
  IF nt.contributions + c <= U32Max
  THEN [panic |-> FALSE, self |-> [nt EXCEPT !.contributions = nt.contributions + c]]
  ELSE IF overflow_checks
  THEN [panic |-> TRUE, self |-> nt]
  ELSE [panic |-> FALSE,
        self |-> [nt EXCEPT !.contributions = (nt.contributions + c) % (U32Max + 1)]]

\* NodeType::set_contributions
set_contributions(nt, c) == [nt EXCEPT !.contributions = c]

\* NodeType::total_contributions
NodeType_total_contributions(nt) == nt.contributions

ToTag(et) == Read("to_tag", [self |-> et], to_tag(et))

EdgeTotalContributions(et) ==
  Read("EdgeType::total_contributions", [self |-> et], EdgeType_total_contributions(et))

GetParam(hp, tag) ==
  /\ CanCall
  /\ op' = "get_param" /\ arg' = [self |-> hp, edge_type_tag |-> tag]
  /\ LET r == get_param(hp, tag) IN ret' = r.value /\ panicked' = r.panic
  /\ Snapshot
  /\ UNCHANGED <<nodes, edges>>

\* add_contributions(c) on the NodeType nt; ret is the NodeType it leaves
AddContributions(nt, c, overflow_checks) ==
  /\ CanCall
  /\ op' = "add_contributions"
  /\ arg' = [self |-> nt, c |-> c, overflow_checks |-> overflow_checks]
  /\ LET r == add_contributions(nt, c, overflow_checks) IN
       ret' = r.self /\ panicked' = r.panic
  /\ Snapshot
  /\ UNCHANGED <<nodes, edges>>

\* set_contributions(c) on the NodeType nt; ret is the NodeType it leaves
SetContributions(nt, c) ==
  Read("set_contributions", [self |-> nt, c |-> c], set_contributions(nt, c))

NodeTotalContributions(nt) ==
  Read("NodeType::total_contributions", [self |-> nt], NodeType_total_contributions(nt))

NextTypes ==
  \/ \E et \in EdgeType : ToTag(et)
  \/ \E et \in EdgeType : EdgeTotalContributions(et)
  \/ \E hp \in HyperParameters, tag \in EdgeTypeTag : GetParam(hp, tag)
  \/ \E nt \in NodeType, c \in U32, oc \in BOOLEAN : AddContributions(nt, c, oc)
  \/ \E nt \in NodeType, c \in U32 : SetContributions(nt, c)
  \/ \E nt \in NodeType : NodeTotalContributions(nt)
  \/ Release

SpecTypes == Init /\ [][NextTypes]_vars

-----------------------------------------------------------------------------
(* C12, C13, C15: the methods of src/types.rs. *)

\* C12: get_param returns a weight and never panics, for every
\* HyperParameters and every EdgeTypeTag, also when edge_weights has no entry
\* for the tag.
C12_GetParamTotal ==
  op = "get_param" => ~panicked /\ ret # None /\ ret[1] \in Weights

\* the edge types of the variant of et, whatever their payload
SameVariant(et) == {x \in EdgeType : x[1] = et[1]}

\* C13: to_tag depends on the variant only: edge types of the same variant,
\* whatever their payloads, have the same tag, so get_param resolves them to
\* the same edge_weights entry; edge types of distinct variants have distinct
\* tags.
C13_ToTagByVariant ==
  op = "to_tag" =>
    /\ \A x \in SameVariant(arg.self) : to_tag(x) = ret
    /\ \A x \in EdgeType \ SameVariant(arg.self) : to_tag(x) # ret
    /\ \A x \in SameVariant(arg.self), hp \in HyperParameters :
         get_param(hp, to_tag(x)) = get_param(hp, ret)

\* to_tag of a contribution edge with a payload other than 0
C13_Witness ==
  /\ op = "to_tag"
  /\ arg.self[1] = "UserToProjectContribution"
  /\ arg.self[2] > 0
  /\ ret = "UserToProjectContribution"

\* C15: add_contributions(c) adds c to the counter for every counter value
\* and every c: afterwards total_contributions() is the previous total plus
\* c, with no overflow panic and no wrap-around, and the variant is the same.
C15_AddContributionsExact ==
  op = "add_contributions" =>
    /\ ~panicked
    /\ ret.variant = arg.self.variant
    /\ NodeType_total_contributions(ret)
         = NodeType_total_contributions(arg.self) + arg.c

-----------------------------------------------------------------------------
(* mod ledger of examples/main.rs: Ledger::checkpoint on the "osrank" graph, *)
(* which is the Network of `nodes` and `edges`.                              *)

\* a run makes checkpoints while fewer than MaxCheckpoints nodes are stored
MaxCheckpoints == 1
\* deps holds at most MaxDeps items
MaxDeps == 1
\* contribs holds at most MaxContribs items
MaxContribs == 2

\* the sequences over S of length at most n
SeqUpTo(S, n) == UNION {[1..k -> S] : k \in 0..n}

\* struct Dep
Dep == [node_id : NodeIds, is_added : BOOLEAN]

\* struct Contrib
Contrib == [node_id : NodeIds]

\* the version bytes a checkpoint is called with
Version == <<1>>
\* the H256 a checkpoint is called with
Hash == [i \in 1..32 |-> 0]

\* enum EdgeType of mod ledger, `as u8`
Ledger_Dependency == 1
Ledger_ContributionFrom == 2
Ledger_ContributionTo == 3

\* fn edge_id: the DefaultHasher hash of from then to.  It is a function of
\* the pair alone; the model takes it to be free of collisions.
edge_id(from, to) == from * (MaxNodeId + 1) + to

RECURSIVE checkpoint_deps(_, _, _)
\* the loop over deps: the edge map it leaves, starting from es
checkpoint_deps(es, node_id, deps) ==
  IF deps = <<>> THEN es
  ELSE LET d == Head(deps)
           id == edge_id(node_id, d.node_id)
       IN  checkpoint_deps(
             IF d.is_added
             THEN BTreeMap_insert(es, id, Edge(id, node_id, d.node_id, <<Ledger_Dependency>>))
             ELSE BTreeMap_remove(es, id),
             node_id, Tail(deps))

RECURSIVE checkpoint_contribs(_, _, _)
\* the loop over contribs: two add_edge calls per item, both under
\* edge_id(node_id, c.node_id)
checkpoint_contribs(es, node_id, contribs) ==
  IF contribs = <<>> THEN es
  ELSE LET c == Head(contribs)
           from_id == edge_id(node_id, c.node_id)
           to_id == edge_id(node_id, c.node_id)
           es1 == BTreeMap_insert(es, from_id,
                    Edge(from_id, node_id, c.node_id, <<Ledger_ContributionFrom>>))
           es2 == BTreeMap_insert(es1, to_id,
                    Edge(to_id, c.node_id, node_id, <<Ledger_ContributionTo>>))
       IN  checkpoint_contribs(es2, node_id, Tail(contribs))

\* Ledger::checkpoint.  osrank is what self.api.graph_mut(&Layer("osrank"))
\* returns: TRUE for Some(graph), FALSE for None, on which unwrap() panics.
Checkpoint(id, deps, contribs, osrank) ==
  /\ CanCall
  /\ Cardinality(DOMAIN nodes) < MaxCheckpoints
  /\ op' = "checkpoint"
  /\ arg' = [id |-> id, deps |-> deps, contribs |-> contribs, osrank |-> osrank]
  /\ ret' = Unit
  /\ panicked' = ~osrank
  /\ IF osrank
     THEN /\ nodes' = BTreeMap_insert(nodes, id,
                        Node(id, << <<"version", Version>>, <<"hash", Hash>> >>))
          /\ edges' = checkpoint_contribs(checkpoint_deps(edges, id, deps), id, contribs)
     ELSE UNCHANGED <<nodes, edges>>
  /\ Snapshot

NextLedger ==
  \/ /\ CanCall
     /\ \E id \in NodeIds, deps \in SeqUpTo(Dep, MaxDeps),
           contribs \in SeqUpTo(Contrib, MaxContribs), osrank \in BOOLEAN :
          Checkpoint(id, deps, contribs, osrank)
  \/ Release

SpecLedger == Init /\ [][NextLedger]_vars

\* C14: after checkpoint(id, .., contribs) returns, for every contrib c the
\* graph holds two distinct edges, one with source id and target c.node_id
\* and one with source c.node_id and target id.  Stated for the contribs of
\* another node than id, where the two edges differ in their ends.
C14_CheckpointBothDirections ==
  (op = "checkpoint" /\ ~panicked) =>
    \A i \in {j \in 1..Len(arg.contribs) : arg.contribs[j].node_id # arg.id} :
      \E e1 \in DOMAIN edges, e2 \in DOMAIN edges :
        /\ e1 # e2
        /\ edges[e1].from = arg.id /\ edges[e1].to = arg.contribs[i].node_id
        /\ edges[e2].from = arg.contribs[i].node_id /\ edges[e2].to = arg.id

=============================================================================
